---- MODULE Spec2Model ----
(***************************************************************************)
(* Model of qr.py: identifier encoding, allocation against the ledger of  *)
(* used identifiers (used_ids.csv), pagination of the allocated list into *)
(* sticker pages and the final ledger append, over a bounded number of    *)
(* sequential runs of main().                                              *)
(*                                                                         *)
(* Python strings are TLA+ strings.  The ledger file is modelled at the   *)
(* level of csv rows (a sequence of rows, each a sequence of fields); the *)
(* csv text encoding itself belongs to the csv library.  Lengths of the   *)
(* template are in units of 0.05 so that width/2 and height/2 are exact.  *)
(***************************************************************************)
EXTENDS Integers, Sequences, FiniteSets, TLC

\* ------------------------------------------------------------------ bounds
MaxRuns == 2

\* ------------------------------------------------- environment input sets
\* Configurations typed at the prompts.  The first two differ in every
\* non-serial segment boundary but concatenate to the same prefix "12424D0".
Configs ==
  { [area |-> 1,  producer_code |-> "24", year |-> 2024, model_code |-> "D0"],
    [area |-> 12, producer_code |-> "4",  year |-> 1924, model_code |-> "D0"] }

Starts == { 1, 100, 9999998 }

\* end - start, for the ranges typed at the prompts
Spans == { -2, 0, 107, 108, 216 }

\* datetime.now() as formatted by save_ids_to_csv: one day per run
Timestamp(n) == "2024-01-0" \o SubSeq("0123456789", n + 1, n + 1) \o " 10:00:00"

\* ------------------------------------------------------ program constants
ids_per_file == 27 * 4

HeaderRow == << "ID", "Generated On" >>

rect_xs == << 426, 4152, 7880 >>
rect_ys == << 868, 2546, 4224, 5902, 7580, 9258, 10936, 12614, 14292 >>

\* the 27 template rectangles, column by column (x, y, width, height * 20)
rect_dimensions ==
  [ k \in 1..27 |-> [ x      |-> rect_xs[((k - 1) \div 9) + 1],
                      y      |-> rect_ys[((k - 1) % 9) + 1],
                      width  |-> 3600,
                      height |-> 1678 ] ]

\* ------------------------------------------------------- string helpers
Min(a, b) == IF a < b THEN a ELSE b
Max(a, b) == IF a > b THEN a ELSE b

Digit(d) == SubSeq("0123456789", d + 1, d + 1)

RECURSIVE NatStr(_)
NatStr(n) == IF n < 10 THEN Digit(n) ELSE NatStr(n \div 10) \o Digit(n % 10)

\* str(n) for a Python int
str(n) == IF n < 0 THEN "-" \o NatStr(0 - n) ELSE NatStr(n)

RECURSIVE Zeros(_)
Zeros(k) == IF k <= 0 THEN "" ELSE "0" \o Zeros(k - 1)

\* s.zfill(width): pad with zeros on the left, after a leading sign; a
\* string already at least width long is returned unchanged
zfill(s, width) ==
  IF Len(s) >= width THEN s
  ELSE IF Len(s) > 0 /\ SubSeq(s, 1, 1) \in { "-", "+" }
       THEN SubSeq(s, 1, 1) \o Zeros(width - Len(s)) \o SubSeq(s, 2, Len(s))
       ELSE Zeros(width - Len(s)) \o s

\* s[-2:]
LastTwo(s) == SubSeq(s, Max(1, Len(s) - 1), Len(s))

\* --------------------------------------------------------------- encoder
\* generate_custom_code with the serial cut like the year: str(serial)[-2:]
generate_custom_code_cut(area, producer_code, year, model_code, serial_number) ==
  LET formatted_year   == LastTwo(str(year))
      formatted_serial == LastTwo(str(serial_number))
  IN  str(area) \o producer_code \o formatted_year \o model_code
        \o formatted_serial

generate_custom_code(area, producer_code, year, model_code, serial_number) ==
  LET formatted_year   == LastTwo(str(year))
      formatted_serial == zfill(str(serial_number), 7)
  IN  str(area) \o producer_code \o formatted_year \o model_code
        \o formatted_serial

\* ------------------------------------------------------------- allocator
\* [f(serial) for serial in range(start, end + 1)]
all_ids_of(start, end, config) ==
  [ k \in 1..Max(0, end + 1 - start) |->
      generate_custom_code(config.area, config.producer_code, config.year,
                           config.model_code, start + k - 1) ]

\* generate_ids with range(start, end): the last serial is left out
generate_ids_short(start, end, used_ids_, config) ==
  LET all_ids == all_ids_of(start, end - 1, config)
      keep(id_) == id_ \notin used_ids_
  IN  SelectSeq(all_ids, keep)

generate_ids(start, end, used_ids_, config) ==
  LET all_ids == all_ids_of(start, end, config)
      keep(id_) == id_ \notin used_ids_
  IN  SelectSeq(all_ids, keep)

\* ---------------------------------------------------------------- ledger
\* The file used_ids.csv: absent, or a sequence of csv rows.
NoFile == [ exists |-> FALSE, rows |-> << >> ]

\* load_used_ids(): FileNotFoundError gives the empty set; next(reader)
\* consumes the first row whatever it is (StopIteration on an empty file);
\* row[0] of every further row (IndexError on a row without fields).
load_used_ids(file) ==
  IF ~file.exists
    THEN [ error |-> "", ids |-> {} ]
  ELSE IF Len(file.rows) = 0
    THEN [ error |-> "StopIteration", ids |-> {} ]
  ELSE IF \E r \in 2..Len(file.rows) : Len(file.rows[r]) = 0
    THEN [ error |-> "IndexError", ids |-> {} ]
  ELSE [ error |-> "", ids |-> { file.rows[r][1] : r \in 2..Len(file.rows) } ]

\* save_ids_to_csv writing the header on every call
save_ids_to_csv_header(file, ids_, timestamp) ==
  LET old == IF file.exists THEN file.rows ELSE << >>
  IN  [ exists |-> TRUE,
        rows   |-> old \o << HeaderRow >>
                     \o [ k \in 1..Len(ids_) |-> << ids_[k], timestamp >> ] ]

\* save_ids_to_csv(ids): open in append mode (creating the file), header
\* when the file is empty, then one row per id
save_ids_to_csv(file, ids_, timestamp) ==
  LET old    == IF file.exists THEN file.rows ELSE << >>
      header == IF Len(old) = 0 THEN << HeaderRow >> ELSE << >>
  IN  [ exists |-> TRUE,
        rows   |-> old \o header
                     \o [ k \in 1..Len(ids_) |-> << ids_[k], timestamp >> ] ]

\* --------------------------------------------------------------- layout
split_serial(serial) ==
  << SubSeq(serial, 1, Min(7, Len(serial))),
     SubSeq(serial, 8, Min(14, Len(serial))) >>

\* place_part with the two axes of the 2x2 grid exchanged
place_part_transposed(rect, idx, part, ids_) ==
  LET current_index == idx * 4 + part
      part_width    == rect.width \div 2
      part_height   == rect.height \div 2
      part_x        == rect.x + (part \div 2) * part_width
      part_y        == rect.y + (part % 2) * part_height
      part_id       == ids_[current_index + 1]
  IN  [ kind |-> "image", idx |-> idx, part |-> part, part_id |-> part_id,
        part_x |-> part_x, part_y |-> part_y,
        qr_x |-> part_x + 40, qr_y |-> part_y - 40,
        text |-> split_serial(part_id) ]

\* the body of the inner loop of generate_svg: the sticker of one part
place_part(rect, idx, part, ids_) ==
  LET current_index == idx * 4 + part
      part_width    == rect.width \div 2
      part_height   == rect.height \div 2
      part_x        == rect.x + (part % 2) * part_width
      part_y        == rect.y + (part \div 2) * part_height
      part_id       == ids_[current_index + 1]
  IN  [ kind |-> "image", idx |-> idx, part |-> part, part_id |-> part_id,
        part_x |-> part_x, part_y |-> part_y,
        qr_x |-> part_x + 40, qr_y |-> part_y - 40,
        text |-> split_serial(part_id) ]

\* the inner loop of generate_svg over the parts of rectangle idx
RECURSIVE svg_parts(_, _, _, _)
svg_parts(rect, idx, part, ids_) ==
  IF part >= 4 \/ idx * 4 + part >= Len(ids_)
    THEN << >>
    ELSE << place_part(rect, idx, part, ids_) >>
         \o svg_parts(rect, idx, part + 1, ids_)

\* the outer loop of generate_svg over the template rectangles
RECURSIVE svg_rects(_, _, _)
svg_rects(rectangles, idx, ids_) ==
  IF idx >= Len(rectangles) \/ idx * 4 >= Len(ids_)
    THEN << >>
    ELSE << [ kind |-> "rect", idx |-> idx ] >>
         \o svg_parts(rectangles[idx + 1], idx, 0, ids_)
         \o svg_rects(rectangles, idx + 1, ids_)

\* generate_svg(output_file, rectangles, ids): the saved drawing
generate_svg(output_file, rectangles, ids_) ==
  [ output_file |-> output_file, dwg |-> svg_rects(rectangles, 0, ids_) ]

\* os.path.join(OUTPUT_DIR, f"sticker_page_{file_start_id}-{file_end_id}.svg")
output_file_name(file_start_id, file_end_id) ==
  "output/sticker_page_" \o file_start_id \o "-" \o file_end_id \o ".svg"

\* the slice ids[i:i + n - 1], one element short
Slice_short(s, from, to) == SubSeq(s, from + 1, Min(to - 1, Len(s)))

\* ids[i:i + n], 0-based, clipped like a Python slice
Slice(s, from, to) == SubSeq(s, from + 1, Min(to, Len(s)))

\* file_start_id = ids[i]
file_start_id_of(ids_, i_) == ids_[i_ + 1]

\* file_end_id taken one position too far: ids[min(i + ids_per_file, len(ids) - 1)]
file_end_id_of_next(ids_, i_) ==
  ids_[Min(i_ + ids_per_file, Len(ids_) - 1) + 1]

\* file_end_id = ids[min(i + ids_per_file - 1, len(ids) - 1)]
file_end_id_of(ids_, i_) ==
  ids_[Min(i_ + ids_per_file - 1, Len(ids_) - 1) + 1]

\* ----------------------------------------------------------------- state
VARIABLES
  used_ids_file,   \* contents of used_ids.csv
  pc,              \* position of main(): load, input, generate, pages, done, failed
  error,           \* the exception that ended the run, "" if none
  used_ids,        \* main.used_ids
  config,          \* main.config
  start,           \* main.start
  end,             \* main.end
  ids,             \* main.ids
  i,               \* loop variable of the pagination loop
  pages,           \* the documents saved by this run, in order
  run,             \* number of the current run
  file_at_start,   \* history: used_ids_file when this run began
  appends,         \* history: calls of save_ids_to_csv made by this run
  issued           \* history: the lists appended by completed runs, in order

vars == << used_ids_file, pc, error, used_ids, config, start, end, ids, i,
           pages, run, file_at_start, appends, issued >>

NoConfig == [ area |-> 0, producer_code |-> "", year |-> 0, model_code |-> "" ]

Init ==
  /\ used_ids_file = NoFile
  /\ pc = "load"
  /\ error = ""
  /\ used_ids = {}
  /\ config = NoConfig
  /\ start = 0
  /\ end = 0
  /\ ids = << >>
  /\ i = 0
  /\ pages = << >>
  /\ run = 1
  /\ file_at_start = NoFile
  /\ appends = 0
  /\ issued = << >>

\* used_ids = load_used_ids()
LoadUsedIds ==
  /\ pc = "load"
  /\ LET r == load_used_ids(used_ids_file)
     IN  IF r.error = ""
           THEN /\ used_ids' = r.ids
                /\ pc' = "input"
                /\ error' = error
           ELSE /\ used_ids' = used_ids
                /\ pc' = "failed"
                /\ error' = r.error
  /\ UNCHANGED << used_ids_file, config, start, end, ids, i, pages, run,
                  file_at_start, appends, issued >>

\* the prompts for the configuration and the range
ReadInput ==
  /\ pc = "input"
  /\ \E c \in Configs, s \in Starts, d \in Spans :
       /\ config' = c
       /\ start' = s
       /\ end' = s + d
  /\ pc' = "generate"
  /\ UNCHANGED << used_ids_file, error, used_ids, ids, i, pages, run,
                  file_at_start, appends, issued >>

\* int(input(...)) on text that is not a number
InputError ==
  /\ pc = "input"
  /\ pc' = "failed"
  /\ error' = "ValueError"
  /\ UNCHANGED << used_ids_file, used_ids, config, start, end, ids, i, pages,
                  run, file_at_start, appends, issued >>

\* ids = generate_ids(start, end, used_ids, config)
GenerateIds ==
  /\ pc = "generate"
  /\ ids' = generate_ids(start, end, used_ids, config)
  /\ i' = 0
  /\ pc' = "pages"
  /\ UNCHANGED << used_ids_file, error, used_ids, config, start, end, pages,
                  run, file_at_start, appends, issued >>

\* one iteration of: for file_idx, i in enumerate(range(0, len(ids), ids_per_file))
WritePage ==
  /\ pc = "pages"
  /\ i < Len(ids)
  /\ LET file_start_id == file_start_id_of(ids, i)
         file_end_id   == file_end_id_of(ids, i)
         output_file   == output_file_name(file_start_id, file_end_id)
     IN  pages' = Append(pages,
                         generate_svg(output_file, rect_dimensions,
                                      Slice(ids, i, i + ids_per_file)))
  /\ i' = i + ids_per_file
  /\ UNCHANGED << used_ids_file, pc, error, used_ids, config, start, end, ids,
                  run, file_at_start, appends, issued >>

\* generate_svg raises (the document cannot be written)
RenderError ==
  /\ pc = "pages"
  /\ i < Len(ids)
  /\ pc' = "failed"
  /\ error' = "OSError"
  /\ UNCHANGED << used_ids_file, used_ids, config, start, end, ids, i, pages,
                  run, file_at_start, appends, issued >>

\* save_ids_to_csv(ids) called before the pages are written
SaveIds_early ==
  /\ pc = "pages"
  /\ LET timestamp == Timestamp(run)
     IN  used_ids_file' = save_ids_to_csv(used_ids_file, ids, timestamp)
  /\ appends' = appends + 1
  /\ issued' = Append(issued, ids)
  /\ pc' = "done"
  /\ UNCHANGED << error, used_ids, config, start, end, ids, i, pages, run,
                  file_at_start >>

\* save_ids_to_csv(ids), after the loop
SaveIds ==
  /\ pc = "pages"
  /\ i >= Len(ids)
  /\ LET timestamp == Timestamp(run)
     IN  used_ids_file' = save_ids_to_csv(used_ids_file, ids, timestamp)
  /\ appends' = appends + 1
  /\ issued' = Append(issued, ids)
  /\ pc' = "done"
  /\ UNCHANGED << error, used_ids, config, start, end, ids, i, pages, run,
                  file_at_start >>

\* the program is started again
NextRun ==
  /\ pc \in { "done", "failed" }
  /\ run < MaxRuns
  /\ run' = run + 1
  /\ pc' = "load"
  /\ error' = ""
  /\ used_ids' = {}
  /\ config' = NoConfig
  /\ start' = 0
  /\ end' = 0
  /\ ids' = << >>
  /\ i' = 0
  /\ pages' = << >>
  /\ file_at_start' = used_ids_file
  /\ appends' = 0
  /\ UNCHANGED << used_ids_file, issued >>

Next ==
  \/ LoadUsedIds
  \/ ReadInput
  \/ InputError
  \/ GenerateIds
  \/ WritePage
  \/ RenderError
  \/ SaveIds
  \/ NextRun

Spec == Init /\ [][Next]_vars

\* ------------------------------------------- a run over any ledger file
\* used_ids.csv is found as some other tool or hand left it: rows of 0 to 3
\* fields, with or without a header in front.
LedgerRows ==
  { HeaderRow,
    << "12424D00000001", "2023-12-31 09:00:00" >>,
    << "12424D00000100", "2023-12-31 09:00:00" >>,
    << "12424D00000002" >>,
    << "12424D00000003", "2023-12-31 09:00:00", "x" >>,
    << >> }

LedgerFiles ==
  { NoFile } \cup
  { [ exists |-> TRUE, rows |-> rows ] :
      rows \in { << >> } \cup { << a >> : a \in LedgerRows }
                \cup { << a, b >> : a \in LedgerRows, b \in LedgerRows }
                \cup { << HeaderRow, a, b >> : a \in LedgerRows, b \in LedgerRows } }

InitAnyLedger ==
  /\ used_ids_file \in LedgerFiles
  /\ pc = "load"
  /\ error = ""
  /\ used_ids = {}
  /\ config = NoConfig
  /\ start = 0
  /\ end = 0
  /\ ids = << >>
  /\ i = 0
  /\ pages = << >>
  /\ run = 1
  /\ file_at_start = used_ids_file
  /\ appends = 0
  /\ issued = << >>

NextOneRun ==
  \/ LoadUsedIds
  \/ ReadInput
  \/ InputError
  \/ GenerateIds
  \/ WritePage
  \/ RenderError
  \/ SaveIds

SpecAnyLedger == InitAnyLedger /\ [][NextOneRun]_vars

TypeOK ==
  /\ pc \in { "load", "input", "generate", "pages", "done", "failed" }
  /\ run \in 1..MaxRuns
  /\ error \in { "", "StopIteration", "IndexError", "ValueError", "OSError" }
  /\ appends \in 0..1

\* ============================================================ properties
encode(c, serial) ==
  generate_custom_code(c.area, c.producer_code, c.year, c.model_code, serial)

\* encode(c, s), ..., encode(c, e) in ascending serial order, without the
\* identifiers of ledger
RECURSIVE Survivors(_, _, _, _)
Survivors(c, s, e, ledger) ==
  IF s > e THEN << >>
  ELSE IF s = e
    THEN LET id_ == encode(c, s)
         IN  IF id_ \in ledger THEN << >> ELSE << id_ >>
  ELSE LET m == (s + e) \div 2
       IN  Survivors(c, s, m, ledger) \o Survivors(c, m + 1, e, ledger)

Capacity == 4 * Len(rect_dimensions)

CeilDiv(n, c) == (n + c - 1) \div c

IsImage(e) == e.kind = "image"

\* the stickers of a saved page, in drawing order
Stickers(page) == SelectSeq(page.dwg, IsImage)

\* the identifiers a saved page carries, in drawing order
PageIds(page) ==
  LET st == Stickers(page) IN [ k \in 1..Len(st) |-> st[k].part_id ]

RECURSIVE ConcatPages(_, _)
ConcatPages(ps, n) ==
  IF n = 0 THEN << >> ELSE ConcatPages(ps, n - 1) \o PageIds(ps[n])

\* generate_ids has just returned
Allocated == pc = "pages" /\ i = 0

\* C1: for start <= end the list returned by generate_ids holds no identifier
\* of the ledger set it was given and is exactly encode(config, s) for
\* s = start..end in ascending order with the ledger's identifiers removed.
C1_DedupCorrect ==
  (Allocated /\ start <= end) =>
     /\ \A k \in 1..Len(ids) : ids[k] \notin used_ids
     /\ ids = Survivors(config, start, end, used_ids)

\* some, but not all, identifiers of a range were already in the ledger
C1_Witness ==
  /\ Allocated
  /\ start <= end
  /\ Len(ids) > 0
  /\ Len(ids) < end - start + 1

\* C2: a completed run over N identifiers has written ceil(N / C) pages with
\* C = 4 * len(template); every page but the last carries C identifiers, the
\* last carries N mod C (C when C divides N); the pages' identifiers
\* concatenated in page order are the allocated list.
C2_CapacityPacking ==
  pc = "done" =>
    LET N == Len(ids)
        C == Capacity
    IN  /\ Len(pages) = CeilDiv(N, C)
        /\ \A p \in 1..Len(pages) :
             Len(PageIds(pages[p])) =
               IF p < Len(pages) THEN C
               ELSE IF N % C = 0 THEN C ELSE N % C
        /\ ConcatPages(pages, Len(pages)) = ids

\* three pages, the last one partially filled
C2_Witness ==
  /\ pc = "done"
  /\ Len(pages) = 3
  /\ Len(ids) % Capacity # 0

\* C7: the page covering positions [i, min(i + C, N)) of the allocated list is
\* named from ids[i] and ids[min(i + C, N) - 1], which are the first and the
\* last identifier placed on it; the names are a function of the configuration,
\* the range and the ledger found at the start of the run.
C7_ArtifactNaming ==
  LET N == Len(ids)
      C == Capacity
  IN  /\ \A p \in 1..Len(pages) :
           LET i0   == (p - 1) * C
               last == Min(i0 + C, N) - 1
               on   == PageIds(pages[p])
           IN  /\ Len(on) > 0
               /\ pages[p].output_file =
                    output_file_name(ids[i0 + 1], ids[last + 1])
               /\ pages[p].output_file = output_file_name(on[1], on[Len(on)])
      /\ pc = "done" =>
           LET alloc == Survivors(config, start, end,
                                  load_used_ids(file_at_start).ids)
           IN  \A p \in 1..Len(pages) :
                 pages[p].output_file =
                   output_file_name(alloc[(p - 1) * C + 1],
                                    alloc[Min(p * C, Len(alloc))])

\* a full page followed by a partially filled last page, both named
C7_Witness ==
  /\ pc = "done"
  /\ Len(pages) = 2
  /\ Len(ids) % Capacity # 0
  /\ pages[1].output_file # pages[2].output_file

\* C8: a page given the list L of n identifiers carries exactly n stickers;
\* the k-th (0-based) carries L[k] in template cell k div 4, slot k mod 4,
\* at column (slot mod 2) and row (slot div 2) of the cell's 2x2 grid; a cell
\* outline is drawn only for cells that carry a sticker.
C8_SlotAssignment ==
  \A p \in 1..Len(pages) :
    LET L  == Slice(ids, (p - 1) * Capacity, p * Capacity)
        st == Stickers(pages[p])
    IN  /\ Len(st) = Len(L)
        /\ \A k \in 0..(Len(L) - 1) :
             LET e    == st[k + 1]
                 cell == rect_dimensions[(k \div 4) + 1]
                 slot == k % 4
             IN  /\ e.part_id = L[k + 1]
                 /\ e.idx = k \div 4
                 /\ e.part = slot
                 /\ e.part_x = cell.x + (slot % 2) * (cell.width \div 2)
                 /\ e.part_y = cell.y + (slot \div 2) * (cell.height \div 2)
        /\ Len(pages[p].dwg) - Len(st) = CeilDiv(Len(L), 4)

\* a page whose last cell is only partly filled
C8_Witness ==
  \E p \in 1..Len(pages) :
    /\ Len(Stickers(pages[p])) % 4 = 3
    /\ Len(Stickers(pages[p])) > 4

\* C3: the ledger is loaded before allocation; a run appends to the ledger at
\* most once and only after all its pages have been written; while a run has
\* not completed, and whenever it has failed, the persisted ledger is the
\* ledger found at the start of the run.
C3_CommitOrdering ==
  /\ appends <= 1
  /\ pc \in { "generate", "pages", "done" } =>
       used_ids = load_used_ids(file_at_start).ids
  /\ appends = 1 =>
       /\ pc = "done"
       /\ error = ""
       /\ i >= Len(ids)
       /\ Len(pages) = CeilDiv(Len(ids), Capacity)
  /\ pc # "done" => (appends = 0 /\ used_ids_file = file_at_start)
  /\ pc = "failed" => used_ids_file = file_at_start

\* rendering failed after a first page had been written, with a ledger present
C3_Witness ==
  /\ pc = "failed"
  /\ error = "OSError"
  /\ Len(pages) >= 1
  /\ Len(file_at_start.rows) > 1

\* C4: a run with start > end ends in an error: generate_ids does not return,
\* no page is written and the persisted ledger is unchanged.
C4_InvalidRangeAborts ==
  (start > end /\ pc \notin { "load", "input", "generate" }) =>
     /\ pc = "failed"
     /\ pages = << >>
     /\ used_ids_file = file_at_start

\* C5: a range that reaches serial 10,000,000 aborts the run, and the serial
\* segment of every allocated identifier is exactly 7 characters long.
C5_FixedWidthSerial ==
  pc \notin { "load", "input", "generate" } =>
     /\ (start <= end /\ end >= 10000000) => pc = "failed"
     /\ \A k \in 1..Len(ids) :
          Len(ids[k]) =
            Len(str(config.area) \o config.producer_code
                  \o LastTwo(str(config.year)) \o config.model_code) + 7

\* C6: without a ledger file load gives the empty set; with a ledger file it
\* either fails or returns every persisted identifier record, header in
\* front or not, and every record it accepted has exactly two fields.
C6_LedgerLoading ==
  pc # "load" =>
    LET f          == file_at_start
        loadFailed == pc = "failed" /\ error \in { "StopIteration", "IndexError" }
        records    == { r \in 1..Len(f.rows) :
                          Len(f.rows[r]) = 2 /\ f.rows[r] # HeaderRow }
    IN  /\ ~f.exists => (~loadFailed /\ used_ids = {})
        /\ (f.exists /\ ~loadFailed) =>
             /\ \A r \in records : f.rows[r][1] \in used_ids
             /\ \A r \in 1..Len(f.rows) :
                  f.rows[r] # HeaderRow => Len(f.rows[r]) = 2

EdgeSerials == { 0, 9, 10, 99, 100, 999999, 1000000, 9999999 }

\* C9: for the configuration of the run, encode is injective on the serials of
\* [0, 9999999] (the serials of the range and the edge serials: as many
\* identifiers as serials), and the list encode(config, start..end) has no
\* duplicate when the range lies in [0, 9999999].
C9_EncodeInjective ==
  pc = "generate" =>
    LET S == { s \in (start..end) \cup EdgeSerials : s >= 0 /\ s <= 9999999 }
        a == all_ids_of(start, end, config)
    IN  /\ Cardinality({ encode(config, s) : s \in S }) = Cardinality(S)
        /\ (start >= 0 /\ end <= 9999999) =>
             Cardinality({ a[k] : k \in 1..Len(a) }) = Len(a)

\* a range of more than a hundred serials inside [0, 9999999]
C9_Witness ==
  /\ pc = "generate"
  /\ start >= 0
  /\ end <= 9999999
  /\ end - start > 100

RECURSIVE Flatten(_, _)
Flatten(lists, n) ==
  IF n = 0 THEN << >> ELSE Flatten(lists, n - 1) \o lists[n]

\* C10: starting without a ledger file, after any sequence of runs the ledger
\* is the header row followed by the identifiers appended by the completed
\* runs, in order, each with a timestamp; no identifier occurs twice; the
\* records found at the start of a run are still in front, unchanged; the set
\* loaded by a run is the set of identifiers appended by the earlier runs.
C10_NeverIssuedTwice ==
  LET rows    == used_ids_file.rows
      flat    == Flatten(issued, Len(issued))
      earlier == IF pc = "done" THEN Len(issued) - 1 ELSE Len(issued)
      before  == Flatten(issued, earlier)
  IN  /\ ~used_ids_file.exists => (rows = << >> /\ issued = << >>)
      /\ used_ids_file.exists =>
           /\ rows[1] = HeaderRow
           /\ \A r \in 2..Len(rows) : Len(rows[r]) = 2
           /\ [ k \in 1..(Len(rows) - 1) |-> rows[k + 1][1] ] = flat
      /\ Cardinality({ flat[k] : k \in 1..Len(flat) }) = Len(flat)
      /\ Len(file_at_start.rows) <= Len(rows)
      /\ SubSeq(rows, 1, Len(file_at_start.rows)) = file_at_start.rows
      /\ pc \in { "input", "generate", "pages", "done" } =>
           used_ids = { before[k] : k \in 1..Len(before) }

\* a second run whose range overlapped the identifiers of the first
C10_Witness ==
  /\ pc = "done"
  /\ Len(issued) = 2
  /\ Len(issued[1]) > 0
  /\ Len(ids) > 0
  /\ Len(ids) < end - start + 1

====
